---- MODULE Spec2Model ----
(***************************************************************************)
(* Model of the doorman agent (agent.py): the VisitorData record of a      *)
(* session, the six function tools that read and write it, the directory   *)
(* lookup made by check_resident and the e-mail sent by confirm_visit.     *)
(***************************************************************************)
EXTENDS Integers, Sequences, FiniteSets, TLC

(* ---------------------------------------------------------------------- *)
(* Bounds                                                                  *)
(* ---------------------------------------------------------------------- *)

\* confirm_visit sends one e-mail per successful call and nothing in the
\* code limits the calls; the model stops after this many e-mails per session.
MaxEmails == 2

(* ---------------------------------------------------------------------- *)
(* Values                                                                  *)
(* ---------------------------------------------------------------------- *)

\* Python's None, the default of the four Optional[str] fields.
None == "<None>"

\* Texts the engine hands to the setters; "" is a str like any other.
Apartments == {"", "12B", "4C"}
Residents == {"", "Alice"}
Visitors == {"", "Bob"}
Reasons == {"", "delivery"}

\* Sessions of the single-session specification and of the concurrent one.
OneSession == {"s1"}
SessionIds == {"s1", "s2"}

\* Outcomes of requests.get + raise_for_status + json: data["exists"] truthy,
\* data["exists"] falsy or missing, or a RequestException.
LookupOutcomes == {"exists", "absent", "error"}

\* Texts of the responses (the f-string templates of the return statements).
Welcome == "Welcome. Please tell me the apartment number you are visiting."
ApartmentRecorded == "Apartment number recorded as {apartment}. Please provide the resident's name."
ResidentRecorded == "Resident name recorded as {name}. Checking if the resident exists."
ResidentFound == "Resident found. Please provide the visitor's name."
ResidentNotFound == "Sorry, the resident does not exist. Have a good day!"
LookupError == "Sorry, there was an error checking the resident's details. Please try again later."
VisitorRecorded == "Visitor name recorded as {name}. Please provide the reason for the visit."
ReasonRecorded == "Reason for visit recorded as: {reason}."
InformationMissing == "Some information is still missing. Please provide all required details."
ThankYou == "Thank you. The following information has been sent to admin:\n{summary}"

\* Log records of the "doorman-ai" logger.
LogStarted == "Doorman agent started"
LogEmailSent == "Email sent successfully."
LogEmailFailed == "Failed to send email: {e}"
LogLookupError == "Error checking resident: {e}"

(* ---------------------------------------------------------------------- *)
(* State                                                                   *)
(* ---------------------------------------------------------------------- *)

VARIABLES
    userdata,   \* session -> its VisitorData record
    outbox,     \* session -> the summaries handed to send_email, in order
    log,        \* session -> the last record the session logged
    response,   \* session -> what the last tool call returned (or on_enter said)
    outcomes,   \* session -> the outcomes its directory requests have had so far
    written,    \* session -> the last argument handed to each setter
    call        \* the last tool call: which session, which tool, and the
                \* directory request it made with the outcome of that request

vars == <<userdata, outbox, log, response, outcomes, written, call>>

\* The sessions entrypoint has started.
Started == DOMAIN userdata

\* VisitorData(): the dataclass defaults.
VisitorData ==
    [apartment_number |-> None, resident_name |-> None,
     visitor_name |-> None, visit_reason |-> None, confirmed |-> FALSE]

\* Before any setter was called.
NothingWritten ==
    [apartment_number |-> None, resident_name |-> None,
     visitor_name |-> None, visit_reason |-> None]

NoSummary == <<>>
NoRequest == [apartment |-> None, resident |-> None, outcome |-> "none"]

\* The rendering alone, as summarize() returns it.
SummaryOnly == "{summary}"

\* A call of a tool that makes no directory request.
Tool(s, tool) == [session |-> s, tool |-> tool, lookup |-> NoRequest]

\* A response: the template of the returned string and what is formatted into it.
Say(template, value, summary) ==
    [template |-> template, value |-> value, summary |-> summary]

(* ---------------------------------------------------------------------- *)
(* VisitorData.summarize                                                   *)
(* ---------------------------------------------------------------------- *)

\* A test for `is not None` in place of truthiness.
Truthy_IsNotNone(x) == x # None

\* Python truthiness of an Optional[str]: None and "" are falsy.
Truthy(x) == x # None /\ x # ""

\* `x or "unknown"`.
OrUnknown(x) == IF Truthy(x) THEN x ELSE "unknown"

\* The dict's keys in the order the literal lists them (sort_keys=False).
summarize_Unsorted(d) ==
    << [key |-> "apartment_number", value |-> OrUnknown(d.apartment_number)],
       [key |-> "resident_name", value |-> OrUnknown(d.resident_name)],
       [key |-> "visitor_name", value |-> OrUnknown(d.visitor_name)],
       [key |-> "visit_reason", value |-> OrUnknown(d.visit_reason)] >>

\* The visitor's line filled from the resident's field.
summarize_CopyPaste(d) ==
    << [key |-> "apartment_number", value |-> OrUnknown(d.apartment_number)],
       [key |-> "resident_name", value |-> OrUnknown(d.resident_name)],
       [key |-> "visit_reason", value |-> OrUnknown(d.visit_reason)],
       [key |-> "visitor_name", value |-> OrUnknown(d.resident_name)] >>

\* yaml.dump of the dict: one "key: value" line per key, and yaml.dump sorts
\* the keys (sort_keys defaults to True), so visit_reason comes before
\* visitor_name ('_' < 'o').
summarize(d) ==
    << [key |-> "apartment_number", value |-> OrUnknown(d.apartment_number)],
       [key |-> "resident_name", value |-> OrUnknown(d.resident_name)],
       [key |-> "visit_reason", value |-> OrUnknown(d.visit_reason)],
       [key |-> "visitor_name", value |-> OrUnknown(d.visitor_name)] >>

\* Parsing the rendering back (yaml.safe_load): the mapping from each key to
\* the scalar on its line.
safe_load(doc) ==
    [k \in {doc[i].key : i \in 1..Len(doc)} |->
        doc[CHOOSE i \in 1..Len(doc) : doc[i].key = k].value]

(* ---------------------------------------------------------------------- *)
(* Operations                                                              *)
(* ---------------------------------------------------------------------- *)

Init ==
    /\ userdata = <<>>
    /\ outbox = <<>>
    /\ log = <<>>
    /\ response = <<>>
    /\ outcomes = <<>>
    /\ written = <<>>
    /\ call = Tool(None, None)

\* entrypoint: a new AgentSession with a fresh VisitorData; DoormanAgent.on_enter
\* logs the start and says the welcome.
entrypoint(s) ==
    /\ s \notin Started
    /\ userdata' = (s :> VisitorData) @@ userdata
    /\ outbox' = (s :> <<>>) @@ outbox
    /\ log' = (s :> LogStarted) @@ log
    /\ response' = (s :> Say(Welcome, None, NoSummary)) @@ response
    /\ outcomes' = (s :> {}) @@ outcomes
    /\ written' = (s :> NothingWritten) @@ written
    /\ call' = Tool(s, "entrypoint")

\* A setter that keeps the first value it was given.
update_apartment_KeepFirst(s, apartment) ==
    /\ s \in Started
    /\ userdata' = [userdata EXCEPT ![s].apartment_number =
                       IF @ = None THEN apartment ELSE @]
    /\ written' = [written EXCEPT ![s].apartment_number = apartment]
    /\ response' = [response EXCEPT ![s] = Say(ApartmentRecorded, apartment, NoSummary)]
    /\ call' = Tool(s, "update_apartment")
    /\ UNCHANGED <<outbox, log, outcomes>>

update_apartment(s, apartment) ==
    /\ s \in Started
    /\ userdata' = [userdata EXCEPT ![s].apartment_number = apartment]
    /\ written' = [written EXCEPT ![s].apartment_number = apartment]
    /\ response' = [response EXCEPT ![s] = Say(ApartmentRecorded, apartment, NoSummary)]
    /\ call' = Tool(s, "update_apartment")
    /\ UNCHANGED <<outbox, log, outcomes>>

\* A setter that drops the visitor when the resident changes.
update_resident_ClearsVisitor(s, name) ==
    /\ s \in Started
    /\ userdata' = [userdata EXCEPT ![s].resident_name = name,
                                    ![s].visitor_name = None]
    /\ written' = [written EXCEPT ![s].resident_name = name]
    /\ response' = [response EXCEPT ![s] = Say(ResidentRecorded, name, NoSummary)]
    /\ call' = Tool(s, "update_resident")
    /\ UNCHANGED <<outbox, log, outcomes>>

update_resident(s, name) ==
    /\ s \in Started
    /\ userdata' = [userdata EXCEPT ![s].resident_name = name]
    /\ written' = [written EXCEPT ![s].resident_name = name]
    /\ response' = [response EXCEPT ![s] = Say(ResidentRecorded, name, NoSummary)]
    /\ call' = Tool(s, "update_resident")
    /\ UNCHANGED <<outbox, log, outcomes>>

\* A lookup that forgets the resident when the directory cannot be reached.
check_resident_ClearOnError(s, outcome) ==
    /\ s \in Started
    /\ outcomes' = [outcomes EXCEPT ![s] = @ \cup {outcome}]
    /\ response' = [response EXCEPT ![s] =
                      CASE outcome = "exists" -> Say(ResidentFound, None, NoSummary)
                        [] outcome = "absent" -> Say(ResidentNotFound, None, NoSummary)
                        [] outcome = "error" -> Say(LookupError, None, NoSummary)]
    /\ log' = [log EXCEPT ![s] = IF outcome = "error" THEN LogLookupError ELSE @]
    /\ userdata' = [userdata EXCEPT ![s].resident_name =
                       IF outcome = "error" THEN None ELSE @]
    /\ call' = [session |-> s, tool |-> "check_resident",
                lookup |-> [apartment |-> userdata[s].apartment_number,
                            resident |-> userdata[s].resident_name,
                            outcome |-> outcome]]
    /\ UNCHANGED <<outbox, written>>

\* The request carries the two fields as they are (None is formatted into the
\* URL like any value); the record is only read.
check_resident(s, outcome) ==
    /\ s \in Started
    /\ outcomes' = [outcomes EXCEPT ![s] = @ \cup {outcome}]
    /\ response' = [response EXCEPT ![s] =
                      CASE outcome = "exists" -> Say(ResidentFound, None, NoSummary)
                        [] outcome = "absent" -> Say(ResidentNotFound, None, NoSummary)
                        [] outcome = "error" -> Say(LookupError, None, NoSummary)]
    /\ log' = [log EXCEPT ![s] = IF outcome = "error" THEN LogLookupError ELSE @]
    /\ call' = [session |-> s, tool |-> "check_resident",
                lookup |-> [apartment |-> userdata[s].apartment_number,
                            resident |-> userdata[s].resident_name,
                            outcome |-> outcome]]
    /\ UNCHANGED <<userdata, outbox, written>>

\* A setter that writes the record of every session, as if the sessions
\* shared one VisitorData.
update_visitor_Shared(s, name) ==
    /\ s \in Started
    /\ userdata' = [t \in Started |-> [userdata[t] EXCEPT !.visitor_name = name]]
    /\ written' = [written EXCEPT ![s].visitor_name = name]
    /\ response' = [response EXCEPT ![s] = Say(VisitorRecorded, name, NoSummary)]
    /\ call' = Tool(s, "update_visitor")
    /\ UNCHANGED <<outbox, log, outcomes>>

update_visitor(s, name) ==
    /\ s \in Started
    /\ userdata' = [userdata EXCEPT ![s].visitor_name = name]
    /\ written' = [written EXCEPT ![s].visitor_name = name]
    /\ response' = [response EXCEPT ![s] = Say(VisitorRecorded, name, NoSummary)]
    /\ call' = Tool(s, "update_visitor")
    /\ UNCHANGED <<outbox, log, outcomes>>

update_reason(s, reason) ==
    /\ s \in Started
    /\ userdata' = [userdata EXCEPT ![s].visit_reason = reason]
    /\ written' = [written EXCEPT ![s].visit_reason = reason]
    /\ response' = [response EXCEPT ![s] = Say(ReasonRecorded, reason, NoSummary)]
    /\ call' = Tool(s, "update_reason")
    /\ UNCHANGED <<outbox, log, outcomes>>

\* A completeness test that leaves the reason out.
Required_NoReason(d) ==
    <<d.apartment_number, d.resident_name, d.visitor_name>>

\* The list confirm_visit hands to all().
Required(d) ==
    <<d.apartment_number, d.resident_name, d.visitor_name, d.visit_reason>>

\* any() in place of all().
all_Any(list) == \E i \in 1..Len(list) : Truthy(list[i])

\* Python's all() over a list of Optional[str].
all(list) == \A i \in 1..Len(list) : Truthy(list[i])

\* A message built without its body.
send_email_NoBody(s, summary, delivered) ==
    /\ outbox' = [outbox EXCEPT ![s] = Append(@, NoSummary)]
    /\ log' = [log EXCEPT ![s] = IF delivered THEN LogEmailSent ELSE LogEmailFailed]

\* send_email(summary): the message body is the summary; the SMTP exchange
\* succeeds or raises, and either way only a log record is written.
send_email(s, summary, delivered) ==
    /\ outbox' = [outbox EXCEPT ![s] = Append(@, summary)]
    /\ log' = [log EXCEPT ![s] = IF delivered THEN LogEmailSent ELSE LogEmailFailed]

\* A confirm_visit out of which the SMTP failure propagates: the call ends at
\* send_email, before the flag is set and before anything is returned.
confirm_visit_Propagates(s, delivered) ==
    /\ s \in Started
    /\ call' = Tool(s, "confirm_visit")
    /\ IF ~all(Required(userdata[s]))
       THEN /\ response' = [response EXCEPT ![s] = Say(InformationMissing, None, NoSummary)]
            /\ UNCHANGED <<userdata, outbox, log, outcomes, written>>
       ELSE /\ Len(outbox[s]) < MaxEmails
            /\ send_email(s, summarize(userdata[s]), delivered)
            /\ userdata' = [userdata EXCEPT ![s].confirmed = delivered \/ @]
            /\ response' = [response EXCEPT ![s] =
                              IF delivered
                              THEN Say(ThankYou, None, summarize(userdata[s]))
                              ELSE @]
            /\ UNCHANGED <<outcomes, written>>

\* A confirm_visit that marks the record before it tests it.
confirm_visit_MarkFirst(s, delivered) ==
    /\ s \in Started
    /\ call' = Tool(s, "confirm_visit")
    /\ userdata' = [userdata EXCEPT ![s].confirmed = TRUE]
    /\ IF ~all(Required(userdata[s]))
       THEN /\ response' = [response EXCEPT ![s] = Say(InformationMissing, None, NoSummary)]
            /\ UNCHANGED <<outbox, log, outcomes, written>>
       ELSE /\ Len(outbox[s]) < MaxEmails
            /\ send_email(s, summarize(userdata[s]), delivered)
            /\ response' = [response EXCEPT ![s] =
                              Say(ThankYou, None, summarize(userdata[s]))]
            /\ UNCHANGED <<outcomes, written>>

confirm_visit(s, delivered) ==
    /\ s \in Started
    /\ call' = Tool(s, "confirm_visit")
    /\ IF ~all(Required(userdata[s]))
       THEN /\ response' = [response EXCEPT ![s] = Say(InformationMissing, None, NoSummary)]
            /\ UNCHANGED <<userdata, outbox, log, outcomes, written>>
       ELSE /\ Len(outbox[s]) < MaxEmails
            /\ send_email(s, summarize(userdata[s]), delivered)
            /\ userdata' = [userdata EXCEPT ![s].confirmed = TRUE]
            /\ response' = [response EXCEPT ![s] =
                              Say(ThankYou, None, summarize(userdata[s]))]
            /\ UNCHANGED <<outcomes, written>>

\* One session, every tool, every input.
Next ==
    \E s \in OneSession :
        \/ entrypoint(s)
        \/ \E apartment \in Apartments : update_apartment(s, apartment)
        \/ \E name \in Residents : update_resident(s, name)
        \/ \E outcome \in LookupOutcomes : check_resident(s, outcome)
        \/ \E name \in Visitors : update_visitor(s, name)
        \/ \E reason \in Reasons : update_reason(s, reason)
        \/ \E delivered \in BOOLEAN : confirm_visit(s, delivered)

Spec == Init /\ [][Next]_vars

\* summarize() called on the session's record as it stands.
render(s) ==
    /\ s \in Started
    /\ response' = [response EXCEPT ![s] = Say(SummaryOnly, None, summarize(userdata[s]))]
    /\ call' = Tool(s, "summarize")
    /\ UNCHANGED <<userdata, outbox, log, outcomes, written>>

\* summarize() on every record the setters can build, including a reason that
\* is the text "unknown".
NextSummarize ==
    \E s \in OneSession :
        \/ entrypoint(s)
        \/ \E apartment \in Apartments : update_apartment(s, apartment)
        \/ \E name \in Residents : update_resident(s, name)
        \/ \E name \in Visitors : update_visitor(s, name)
        \/ \E reason \in Reasons \cup {"unknown"} : update_reason(s, reason)
        \/ render(s)

SpecSummarize == Init /\ [][NextSummarize]_vars

\* Two sessions, one entrypoint call each, their tool calls interleaved in any
\* order. Each call is one step: a tool runs to its return without awaiting.
\* The sessions are told apart by the apartment their visitor asks for.
ApartmentOf(s) == IF s = "s1" THEN "12B" ELSE "4C"

NextSessions ==
    \E s \in SessionIds :
        \/ entrypoint(s)
        \/ \E apartment \in {ApartmentOf(s)} : update_apartment(s, apartment)
        \/ \E name \in {"Alice"} : update_resident(s, name)
        \/ \E outcome \in {"exists"} : check_resident(s, outcome)
        \/ \E name \in {"Bob"} : update_visitor(s, name)
        \/ \E reason \in {"delivery"} : update_reason(s, reason)
        \/ \E delivered \in {TRUE} : confirm_visit(s, delivered)

SpecSessions == Init /\ [][NextSessions]_vars

(* ---------------------------------------------------------------------- *)
(* Properties                                                              *)
(* ---------------------------------------------------------------------- *)

\* The step is a call of `tool` in session s.
Called(s, tool) == call'.session = s /\ call'.tool = tool

\* The step is a confirm_visit of session s that notified and confirmed.
Succeeded(s) ==
    /\ Called(s, "confirm_visit")
    /\ Len(outbox'[s]) = Len(outbox[s]) + 1
    /\ userdata'[s].confirmed

\* The four text fields of a record.
Fields == {"apartment_number", "resident_name", "visitor_name", "visit_reason"}
Setters == {"update_apartment", "update_resident", "update_visitor", "update_reason"}

\* What the specification calls SealedRecordError.
SealedRecordError == "SealedRecordError"

\* C1: in every state of a session the notification sink has been invoked at
\* most once, whatever operations were called and however often.
C1_NotifiedAtMostOnce ==
    \A s \in Started : Len(outbox[s]) <= 1

\* C2: confirm_visit on a record that is already confirmed returns the summary
\* of the first successful confirm and leaves the record as it is.
C2_ReconfirmReturnsCachedSummary ==
    [][\A s \in Started :
        (userdata[s].confirmed /\ Called(s, "confirm_visit"))
            => /\ response'[s].template = ThankYou
               /\ response'[s].summary = outbox[s][1]
               /\ userdata'[s] = userdata[s]]_vars

\* C3 (as stated): a confirm_visit call succeeds iff each of the four fields
\* is non-absent (was set at least once) when it is called.
C3_SucceedsIffAllSet ==
    [][\A s \in Started :
        Called(s, "confirm_visit")
            => (Succeeded(s) <=> \A f \in Fields : userdata[s][f] # None)]_vars

\* C3 (amended): a confirm_visit call succeeds iff each of the four fields
\* holds a non-empty text when it is called; a field that was never set or
\* whose last value is the empty string makes it answer "missing".
C3_SucceedsIffAllNonEmpty ==
    [][\A s \in Started :
        Called(s, "confirm_visit")
            => /\ Succeeded(s) <=>
                    \A f \in Fields : userdata[s][f] # None /\ userdata[s][f] # ""
               /\ Succeeded(s) \/ /\ response'[s].template = InformationMissing
                                  /\ outbox'[s] = outbox[s]
                                  /\ userdata'[s] = userdata[s]]_vars

\* C3 witness: a confirm_visit that succeeded, and the record holds four texts.
C3_Witness ==
    \E s \in Started :
        /\ call = Tool(s, "confirm_visit")
        /\ response[s].template = ThankYou
        /\ userdata[s].confirmed
        /\ \A f \in Fields : userdata[s][f] \notin {None, ""}

\* C4: in every reachable state, confirmed implies that none of the four text
\* fields is absent.
C4_ConfirmedImpliesAllSet ==
    \A s \in Started :
        userdata[s].confirmed => \A f \in Fields : userdata[s][f] # None

\* C4 witness: a confirmed record one of whose fields was overwritten since.
C4_Witness ==
    \E s \in Started :
        /\ userdata[s].confirmed
        /\ call.tool = "update_reason"
        /\ userdata[s].visit_reason = ""

\* C5: a session is confirmed, or has notified, only after one of its
\* check_resident calls found the resident.
C5_ConfirmedOnlyAfterPositiveLookup ==
    \A s \in Started :
        (userdata[s].confirmed \/ Len(outbox[s]) > 0) => "exists" \in outcomes[s]

\* C6: once the record is confirmed, a setter call answers SealedRecordError
\* and leaves the four fields and the confirmed flag as they are.
C6_SettersSealedAfterConfirm ==
    [][\A s \in Started :
        (userdata[s].confirmed /\ \E t \in Setters : Called(s, t))
            => /\ response'[s].template = SealedRecordError
               /\ userdata'[s] = userdata[s]]_vars

\* C7: once a lookup of the session reported that the resident does not exist,
\* update_visitor, update_reason and confirm_visit answer the rejection
\* message, leave the record as it is and notify nobody.
C7_RejectedIsTerminal ==
    [][\A s \in Started :
        ("absent" \in outcomes[s]
         /\ \E t \in {"update_visitor", "update_reason", "confirm_visit"} : Called(s, t))
            => /\ response'[s].template = ResidentNotFound
               /\ userdata'[s] = userdata[s]
               /\ outbox'[s] = outbox[s]]_vars

\* C8: a check_resident whose lookup fails answers the retry-later message and
\* leaves the record and the outbox as they were; one whose lookup finds the
\* resident answers the prompt for the visitor's name, also after a failure.
C8_LookupFailureLeavesState ==
    [][\A s \in Started :
        Called(s, "check_resident")
            => /\ call'.lookup.outcome = "error"
                    => /\ response'[s] = Say(LookupError, None, NoSummary)
                       /\ userdata'[s] = userdata[s]
                       /\ outbox'[s] = outbox[s]
                       /\ written'[s] = written[s]
               /\ call'.lookup.outcome = "exists"
                    => /\ response'[s] = Say(ResidentFound, None, NoSummary)
                       /\ userdata'[s] = userdata[s]]_vars

\* C8 witness: a lookup failed on a record with both fields set, and the retry
\* found the resident.
C8_Witness ==
    \E s \in Started :
        /\ call.session = s /\ call.tool = "check_resident"
        /\ call.lookup = [apartment |-> "12B", resident |-> "Alice", outcome |-> "exists"]
        /\ {"error", "exists"} \subseteq outcomes[s]
        /\ response[s].template = ResidentFound
        /\ userdata[s].apartment_number = "12B"
        /\ userdata[s].resident_name = "Alice"

\* C9: the summary a successful confirm_visit sends and returns carries, for
\* each field, the last value written to it.
C9_LastWriteWins ==
    [][\A s \in Started :
        Succeeded(s)
            => LET payload == outbox'[s][Len(outbox'[s])]
               IN /\ \A i \in 1..Len(payload) :
                        payload[i].value = written[s][payload[i].key]
                  /\ {payload[i].key : i \in 1..Len(payload)} = Fields
                  /\ response'[s].summary = payload]_vars

\* C9 witness: two confirmations of one session whose summaries differ in the
\* apartment: it was written again in between, and the second summary has the
\* later value only.
C9_Witness ==
    \E s \in Started :
        /\ Len(outbox[s]) = 2
        /\ outbox[s][1][1] = [key |-> "apartment_number", value |-> "12B"]
        /\ outbox[s][2][1] = [key |-> "apartment_number", value |-> "4C"]
        /\ written[s].apartment_number = "4C"

\* C10: on a successful confirm_visit the payload handed to send_email is
\* summarize() of the record at that moment, its four values are the record's
\* four fields, and the response embeds the same rendering.
C10_PayloadIsSummary ==
    [][\A s \in Started :
        Succeeded(s)
            => LET payload == outbox'[s][Len(outbox'[s])]
               IN /\ payload = summarize(userdata[s])
                  /\ {<<payload[i].key, payload[i].value>> : i \in 1..Len(payload)}
                        = {<<f, userdata[s][f]>> : f \in Fields}
                  /\ response'[s] = Say(ThankYou, None, payload)
                  /\ Len(outbox'[s]) = Len(outbox[s]) + 1]_vars

\* C10 witness: 12B / Alice / Bob / delivery confirmed, one notification with
\* those four values.
C10_Witness ==
    \E s \in Started :
        /\ userdata[s].confirmed
        /\ Len(outbox[s]) = 1
        /\ {<<outbox[s][1][i].key, outbox[s][1][i].value>> : i \in 1..4}
              = {<<"apartment_number", "12B">>, <<"resident_name", "Alice">>,
                 <<"visitor_name", "Bob">>, <<"visit_reason", "delivery">>}
        /\ response[s].summary = outbox[s][1]

\* C11: a confirm_visit on a complete record sets confirmed and returns the
\* success response with the summary whether the delivery succeeds or fails;
\* the delivery's outcome shows in the log record only.
C11_BestEffortNotification ==
    [][\A s \in Started :
        (Called(s, "confirm_visit") /\ \A f \in Fields : userdata[s][f] \notin {None, ""})
            => /\ userdata'[s].confirmed
               /\ response'[s] = Say(ThankYou, None, summarize(userdata[s]))
               /\ log'[s] \in {LogEmailSent, LogEmailFailed}
               /\ Len(outbox'[s]) = Len(outbox[s]) + 1]_vars

\* C11 witness: the first confirmation's delivery failed; the record is
\* confirmed and the caller got the success response.
C11_Witness ==
    \E s \in Started :
        /\ call = Tool(s, "confirm_visit")
        /\ log[s] = LogEmailFailed
        /\ Len(outbox[s]) = 1
        /\ userdata[s].confirmed
        /\ response[s].template = ThankYou

\* Everything a session owns.
Session(s) ==
    [userdata |-> userdata[s], outbox |-> outbox[s], log |-> log[s],
     response |-> response[s], outcomes |-> outcomes[s], written |-> written[s]]

\* C12: with two sessions interleaved, a call of one session leaves everything
\* the other session owns as it was, and what a session holds comes from its
\* own calls only: its fields are the last values its own setters were given,
\* and its notifications and its confirmed flag are those of its own confirms.
C12_SessionsIndependent ==
    [][\A s \in Started :
        /\ call'.session # s => Session(s)' = Session(s)
        /\ \A f \in Fields : userdata'[s][f] = written'[s][f]
        /\ userdata'[s].apartment_number \in {None, ApartmentOf(s)}
        /\ userdata'[s].confirmed <=> Len(outbox'[s]) > 0
        /\ outbox'[s] # outbox[s] =>
              /\ call'.session = s
              /\ LET payload == outbox'[s][Len(outbox'[s])]
                 IN /\ outbox'[s] = Append(outbox[s], payload)
                    /\ \A j \in 1..Len(payload) :
                          /\ payload[j].key \in Fields
                          /\ payload[j].value = written[s][payload[j].key]]_vars

\* C12 witness: both sessions are confirmed for different apartments, each
\* with one notification of its own.
C12_Witness ==
    /\ Started = SessionIds
    /\ \A s \in Started : userdata[s].confirmed /\ Len(outbox[s]) = 1
    /\ userdata["s1"].apartment_number = "12B"
    /\ userdata["s2"].apartment_number = "4C"
    /\ outbox["s1"][1][1].value = "12B"
    /\ outbox["s2"][1][1].value = "4C"

\* C13: visitor_name is set only in a session one of whose check_resident
\* calls found the resident.
C13_VisitorOnlyAfterValidation ==
    \A s \in Started :
        userdata[s].visitor_name # None => "exists" \in outcomes[s]

\* C14: check_resident issues the directory request only when apartment_number
\* and resident_name are both set and the record is not confirmed; the request
\* never carries an absent apartment or resident.
C14_LookupOnlyWithBothFields ==
    [][\A s \in Started :
        Called(s, "check_resident")
            => /\ userdata[s].apartment_number # None
               /\ userdata[s].resident_name # None
               /\ ~userdata[s].confirmed
               /\ call'.lookup.apartment # None
               /\ call'.lookup.resident # None]_vars

\* C15: a confirm_visit called while one of the four fields is absent returns
\* the information-missing message and leaves the record, the outbox and the
\* log as they were.
C15_IncompleteConfirmIsSoft ==
    [][\A s \in Started :
        (Called(s, "confirm_visit") /\ \E f \in Fields : userdata[s][f] = None)
            => /\ response'[s] = Say(InformationMissing, None, NoSummary)
               /\ userdata'[s] = userdata[s]
               /\ outbox'[s] = outbox[s]
               /\ log'[s] = log[s]]_vars

\* C15 witness: confirm_visit answered "missing" on a record that has three
\* fields and no reason.
C15_Witness ==
    \E s \in Started :
        /\ call = Tool(s, "confirm_visit")
        /\ response[s].template = InformationMissing
        /\ userdata[s] = [apartment_number |-> "12B", resident_name |-> "Alice",
                          visitor_name |-> "Bob", visit_reason |-> None,
                          confirmed |-> FALSE]
        /\ outbox[s] = <<>>

\* The keys of a rendering, in the order of its lines.
KeysOf(doc) == [i \in 1..Len(doc) |-> doc[i].key]

\* The session's record was just rendered by summarize().
Rendered(s) == call = Tool(s, "summarize")

\* C16 (as stated): summarize() renders the keys in the order apartment_number,
\* resident_name, visitor_name, visit_reason, and "unknown" exactly for the
\* absent fields.
C16_KeyOrderAndPlaceholders ==
    \A s \in Started :
        Rendered(s)
            => LET doc == response[s].summary
               IN /\ KeysOf(doc) = <<"apartment_number", "resident_name",
                                     "visitor_name", "visit_reason">>
                  /\ \A i \in 1..Len(doc) :
                        doc[i].value = "unknown" <=> userdata[s][doc[i].key] = None

\* C16 (amended): summarize() renders the keys in the order apartment_number,
\* resident_name, visit_reason, visitor_name, with "unknown" for each field
\* that is absent or the empty string and the field's text for every other.
C16_SortedKeysAndPlaceholders ==
    \A s \in Started :
        Rendered(s)
            => LET doc == response[s].summary
               IN /\ KeysOf(doc) = <<"apartment_number", "resident_name",
                                     "visit_reason", "visitor_name">>
                  /\ \A i \in 1..Len(doc) :
                        LET x == userdata[s][doc[i].key]
                        IN /\ x \in {None, ""} => doc[i].value = "unknown"
                           /\ x \notin {None, ""} => doc[i].value = x

\* C16 witness: a rendered record with one absent field, one empty field and
\* two texts.
C16_Witness ==
    \E s \in Started :
        /\ Rendered(s)
        /\ userdata[s].apartment_number = "12B"
        /\ userdata[s].resident_name = None
        /\ userdata[s].visitor_name = ""
        /\ userdata[s].visit_reason = "delivery"
        /\ response[s].summary[2].value = "unknown"

\* A parsed value read back as a field: the placeholder stands for absence.
Recovered(v) == IF v = "unknown" THEN None ELSE v

\* C17 (as stated): parsing the rendering back recovers each field's value,
\* only an absent field coming back as the placeholder.
C17_RoundTrip ==
    \A s \in Started :
        Rendered(s)
            => \A f \in Fields :
                  Recovered(safe_load(response[s].summary)[f]) = userdata[s][f]

\* C17 (amended): parsing the rendering back yields one value for each of the
\* four fields; it is the field's own text when that is a non-empty text, and
\* the placeholder "unknown" when the field is absent or the empty string. So
\* a field is recovered unless it is the empty string or the text "unknown".
C17_RoundTripOfNonEmptyText ==
    \A s \in Started :
        Rendered(s)
            => LET back == safe_load(response[s].summary)
               IN /\ DOMAIN back = Fields
                  /\ \A f \in Fields :
                        /\ userdata[s][f] \notin {None, ""} => back[f] = userdata[s][f]
                        /\ userdata[s][f] \in {None, ""} => back[f] = "unknown"
                        /\ userdata[s][f] \notin {"", "unknown"}
                              => Recovered(back[f]) = userdata[s][f]

\* C17 witness: four texts rendered and read back, and an absent field read
\* back as absent.
C17_Witness ==
    \E s \in Started :
        /\ Rendered(s)
        /\ userdata[s].apartment_number = "4C"
        /\ userdata[s].resident_name = "Alice"
        /\ userdata[s].visitor_name = None
        /\ userdata[s].visit_reason = "delivery"
        /\ safe_load(response[s].summary) =
              [apartment_number |-> "4C", resident_name |-> "Alice",
               visitor_name |-> "unknown", visit_reason |-> "delivery"]

\* The field a response asks the visitor for next.
PromptFor(template) ==
    CASE template = Welcome -> "apartment_number"
      [] template = ApartmentRecorded -> "resident_name"
      [] template = ResidentFound -> "visitor_name"
      [] template = VisitorRecorded -> "visit_reason"
      [] OTHER -> None

\* The first field of the record that is still absent.
NextMissing(d) ==
    CASE d.apartment_number = None -> "apartment_number"
      [] d.resident_name = None -> "resident_name"
      [] d.visitor_name = None -> "visitor_name"
      [] d.visit_reason = None -> "visit_reason"
      [] OTHER -> None

\* C18: update_apartment's response repeats the recorded value and asks for the
\* next field that is still missing in the record (stated for records whose
\* fields are absent or non-empty texts, where "missing" has one meaning).
C18_PromptsForNextMissingField ==
    [][\A s \in Started :
        (Called(s, "update_apartment") /\ \A f \in Fields : userdata'[s][f] # "")
            => /\ response'[s].value = userdata'[s].apartment_number
               /\ PromptFor(response'[s].template) = NextMissing(userdata'[s])]_vars

\* C19: a setter writes its own field with the value it was given and leaves
\* the other three fields, the confirmed flag and the outbox as they were;
\* check_resident leaves the whole record and the outbox as they were.
C19_SettersWriteOwnFieldOnly ==
    [][\A s \in Started :
        LET d == userdata[s]
            v == response'[s].value
        IN /\ Called(s, "update_apartment")
                => userdata'[s] = [d EXCEPT !.apartment_number = v] /\ v # None
           /\ Called(s, "update_resident")
                => userdata'[s] = [d EXCEPT !.resident_name = v] /\ v # None
           /\ Called(s, "update_visitor")
                => userdata'[s] = [d EXCEPT !.visitor_name = v] /\ v # None
           /\ Called(s, "update_reason")
                => userdata'[s] = [d EXCEPT !.visit_reason = v] /\ v # None
           /\ Called(s, "check_resident") => userdata'[s] = d
           /\ (\E t \in Setters \cup {"check_resident"} : Called(s, t))
                => outbox'[s] = outbox[s]]_vars

\* C19 witness: update_resident was called on a confirmed record and the other
\* three fields are still there.
C19_Witness ==
    \E s \in Started :
        /\ call = Tool(s, "update_resident")
        /\ userdata[s] = [apartment_number |-> "4C", resident_name |-> "",
                          visitor_name |-> "Bob", visit_reason |-> "delivery",
                          confirmed |-> TRUE]
        /\ Len(outbox[s]) = 1

\* C20: in every reachable state a confirmed session has sent at least one
\* notification whose payload has no "unknown" in it; a confirm_visit that
\* confirms sends the rendering of four non-empty fields in the same step; and
\* a confirmed record stays confirmed.
C20_NotifiedBeforeConfirmed ==
    /\ [](\A s \in Started :
            userdata[s].confirmed
                => \E i \in 1..Len(outbox[s]) :
                      /\ Len(outbox[s][i]) = 4
                      /\ \A j \in 1..Len(outbox[s][i]) :
                            outbox[s][i][j].value \notin {"unknown", "", None})
    /\ [][\A s \in Started :
            /\ userdata[s].confirmed => userdata'[s].confirmed
            /\ (~userdata[s].confirmed /\ userdata'[s].confirmed)
                  => /\ Len(outbox'[s]) = Len(outbox[s]) + 1
                     /\ \A f \in Fields : userdata[s][f] \notin {None, ""}]_vars

\* C20 witness: a confirmed record whose fields were emptied afterwards; the
\* notification it sent carries the four texts.
C20_Witness ==
    \E s \in Started :
        /\ userdata[s].confirmed
        /\ userdata[s].visitor_name = ""
        /\ userdata[s].apartment_number = ""
        /\ Len(outbox[s]) = 1
        /\ \A j \in 1..4 : outbox[s][1][j].value \in {"12B", "Alice", "Bob", "delivery"}

====
